---- MODULE Spec2Model ----
(***************************************************************************)
(* A model of node-red-contrib-mavlink-toolkit: the MAVLink v2 helpers     *)
(* (CRC, field codec, frame builder, frame scanner) and the build, parse   *)
(* and io nodes that use them.                                             *)
(*                                                                         *)
(* Buffers are sequences of bytes 0..255, read with 0-based offsets as in  *)
(* the source (byte i of buf is buf[i+1]).  A function that can throw      *)
(* returns a record [ok |-> TRUE, ...] or [ok |-> FALSE, err |-> "..."].   *)
(* Numbers range over the integers from -(2^31-1) to 2^31-1; 32 and 64 bit *)
(* quantities are handled in 16-bit halves so that no intermediate value   *)
(* leaves that range.  Strings are the sequences of their UTF-8 bytes and  *)
(* range over non-NUL ASCII.  float and double fields are outside the      *)
(* universe of field types of this model.                                  *)
(***************************************************************************)
EXTENDS Integers, Sequences, FiniteSets, TLC

VARIABLES
    cdef,        \* codec: the message definition under test
    cvals,       \* codec: the field-value mapping handed to packPayload
    cpacked,     \* codec: result of packPayload(cdef, cvals), or Idle
    cbytes,      \* codec: the bytes last handed to unpackPayload
    cunpacked,   \* codec: result of unpackPayload(cdef, cbytes), or Idle
    schema,      \* mavlink-schema: node.schema (NoSchema is null)
    parseNode,   \* mavlink-parse: whether constructed, and its captured messages
    seq,         \* mavlink-build: the closure's sequence counter
    built,       \* mavlink-build: outcome of the last input (sent msg or error)
    wire,        \* the buffer in msg.payload on its way to the parse node
    parsed,      \* mavlink-parse: outcome of the last input (buffer, sent messages)
    stream,      \* mavlink-io: the bytes the transport will deliver, by frames and noise
    pos,         \* mavlink-io: how many bytes of the stream have been delivered
    rxBuf,       \* mavlink-io: the closure's receive buffer
    ioSent,      \* mavlink-io: every node.send so far, in order
    ioCalls,     \* mavlink-io: handleIncoming calls so far: "none", "one", "many"
    shortFirst   \* mavlink-io: whether the first chunk held fewer bytes than a header

codecVars == <<cdef, cvals, cpacked, cbytes, cunpacked>>

flowVars == <<schema, parseNode, seq, built, wire, parsed>>

ioVars == <<stream, pos, rxBuf, ioSent, ioCalls, shortFirst>>

VARIABLES
    autoDownload, \* mavlink-schema: node.autoDownload
    zipState,     \* cache: the dialect zip and its extracted tree: "none", "fresh", "old"
    upstream,     \* the dialect version the repository serves
    xmlVer,       \* cache: version of the XML files on disk, 0 when there are none
    schemaFile,   \* cache: version held by the schema.json file, 0 when there is none
    heap,         \* the catalog objects created so far, by identity
    nodeSchema,   \* mavlink-schema: node.schema as an identity, 0 for null
    held,         \* readers: catalogs handed out by getSchema, as first seen
    inflight,     \* ensureSchema runs awaiting downloadRepoZip, by kind
    started,      \* ensureSchema runs started
    lastRun       \* the last ensureSchema run that ended

catVars == <<autoDownload, zipState, upstream, xmlVer, schemaFile, heap, nodeSchema,
             held, inflight, started, lastRun>>

VARIABLES
    crcStart,     \* crc engine: the seed of the running checksum
    crcBuf,       \* crc engine: the bytes accumulated so far
    crcPrev,      \* crc engine: the checksum before the last byte
    crcReg        \* crc engine: the running checksum

crcVars == <<crcStart, crcBuf, crcPrev, crcReg>>

vars == <<codecVars, flowVars, ioVars, catVars, crcVars>>

Idle == [ok |-> FALSE, err |-> "idle"]

Throw(e) == [ok |-> FALSE, err |-> e]

(***************************************************************************)
(* Bit operations on non-negative integers.                                *)
(***************************************************************************)
RECURSIVE XorBits(_, _)
XorBits(a, b) ==
    IF a = 0 THEN b
    ELSE IF b = 0 THEN a
    ELSE (((a % 2) + (b % 2)) % 2) + 2 * XorBits(a \div 2, b \div 2)

\* a ^ b for bytes, tabulated
Xor8 == [a \in 0..255 |-> [b \in 0..255 |-> XorBits(a, b)]]

\* a ^ b for a, b in 0..65535
Xor(a, b) == Xor8[a % 256][b % 256] + 256 * Xor8[a \div 256][b \div 256]

MAGIC_V2 == 253

(***************************************************************************)
(* X.25 CRC (MCRF4XX).                                                     *)
(***************************************************************************)
\* tmp = (tmp ^ (tmp << 4)) & 0xff
crcTmp(t0) == Xor(t0, t0 * 16) % 256

\* a return expression that shifts tmp left by 4 where the code shifts by 3
crcMix_ShiftFour(tmp, crc) ==
    Xor(Xor(Xor((crc \div 256) % 65536, tmp * 256), tmp * 16), tmp \div 16) % 65536

\* (((crc >> 8) & 0xffff) ^ (tmp << 8) ^ (tmp << 3) ^ (tmp >> 4)) & 0xffff
crcMix(tmp, crc) ==
    Xor(Xor(Xor((crc \div 256) % 65536, tmp * 256), tmp * 8), tmp \div 16) % 65536

crcAccumulate(byte, crc) == crcMix(crcTmp(Xor(byte, crc % 256)), crc)

\* the loop of crcX25 over bytes lo..hi of buf (1-based), left to right; the
\* range is folded half by half, which is the same fold
RECURSIVE crcFold(_, _, _, _)
crcFold(buf, lo, hi, crc) ==
    IF lo > hi THEN crc
    ELSE IF lo = hi THEN crcAccumulate(buf[lo], crc)
    ELSE LET mid  == (lo + hi) \div 2
             left == crcFold(buf, lo, mid, crc)
         IN  IF left >= 0 THEN crcFold(buf, mid + 1, hi, left) ELSE left

crcSeed == 65535

crcX25(buf) == crcFold(buf, 1, Len(buf), crcSeed) % 65536

\* no checksum is being accumulated
CrcIdle ==
    /\ crcStart = crcSeed
    /\ crcBuf = << >>
    /\ crcPrev = crcSeed
    /\ crcReg = crcSeed

(***************************************************************************)
(* Type table.                                                             *)
(***************************************************************************)
typeSize ==
    [char |-> 1, int8_t |-> 1, uint8_t |-> 1,
     int16_t |-> 2, uint16_t |-> 2,
     int32_t |-> 4, uint32_t |-> 4,
     int64_t |-> 8, uint64_t |-> 8]

sizeof(t, len) ==
    (IF t \in DOMAIN typeSize THEN typeSize[t] ELSE 0) * (IF len = 0 THEN 1 ELSE len)

FieldSize(f) == sizeof(f.type, IF f.arrayLen = 0 THEN 1 ELSE f.arrayLen)

(***************************************************************************)
(* sortFieldsForPacking: Array.prototype.sort with comparator sb - sa,     *)
(* a stable sort by descending total field size.                           *)
(***************************************************************************)
RECURSIVE InsertField(_, _)
InsertField(sorted, f) ==
    IF sorted = << >> THEN <<f>>
    ELSE IF FieldSize(Head(sorted)) >= FieldSize(f)
         THEN <<Head(sorted)>> \o InsertField(Tail(sorted), f)
         ELSE <<f>> \o sorted

RECURSIVE SortFrom(_, _, _)
SortFrom(fields, i, acc) ==
    IF i > Len(fields) THEN acc ELSE SortFrom(fields, i + 1, InsertField(acc, fields[i]))

\* no reordering at all: the declared order
sortFieldsForPacking_Declared(fields) == fields

sortFieldsForPacking(fields) == SortFrom(fields, 1, << >>)

(***************************************************************************)
(* Buffer primitives (Node's Buffer).                                      *)
(***************************************************************************)
Zeros(n) == [i \in 1..n |-> 0]

\* buf with bytes written at 0-based offset off
Put(buf, off, bytes) ==
    SubSeq(buf, 1, off) \o bytes \o SubSeq(buf, off + Len(bytes) + 1, Len(buf))

\* buf.subarray(from, to): both ends clamped to the buffer
subarray(buf, from, to) ==
    LET a == IF from > Len(buf) THEN Len(buf) ELSE from
        b == IF to > Len(buf) THEN Len(buf) ELSE to
    IN  IF b <= a THEN << >> ELSE SubSeq(buf, a + 1, b)

\* the two bytes of a 16-bit quantity, little-endian
Bytes16(h) == <<h % 256, h \div 256>>

\* the 16-bit halves (low, high) of the low 32 bits of v, two's complement
Lo32(v) == <<v % 65536, (v \div 65536) % 65536>>

\* the 16-bit halves of (v >> 32) & 0xffffffff
Hi32(v) ==
    LET hi == (v \div 65536) \div 65536
    IN  <<hi % 65536, (hi \div 65536) % 65536>>

Bytes32(hl) == Bytes16(hl[1]) \o Bytes16(hl[2])

\* a number outside the modelled range, kept as its bytes
Wide(bytes) == [wide |-> bytes]

Read16(buf, off) == buf[off + 1] + 256 * buf[off + 2]

\* the number held by four little-endian bytes
Num32(buf, off, signed) ==
    LET l == Read16(buf, off)
        h == Read16(buf, off + 2)
    IN  IF h < 32768 THEN h * 65536 + l
        ELSE IF signed THEN (h - 65536) * 65536 + l
        ELSE Wide(SubSeq(buf, off + 1, off + 4))

\* Number((hi << 32n) | lo) for lo = readUInt32LE(off), hi = read[U]Int32LE(off+4)
Num64(buf, off, signed) ==
    LET l1 == Read16(buf, off + 2)
        h0 == Read16(buf, off + 4)
        h1 == Read16(buf, off + 6)
    IN  IF h0 = 0 /\ h1 = 0 /\ l1 < 32768 THEN Num32(buf, off, FALSE)
        ELSE IF signed /\ h0 = 65535 /\ h1 = 65535 /\ l1 >= 32768 THEN Num32(buf, off, TRUE)
        ELSE Wide(SubSeq(buf, off + 1, off + 8))

(***************************************************************************)
(* writeScalarLE: the buffer after the write and the next offset, or the   *)
(* error thrown.  Buffer.write[U]IntN throws ERR_OUT_OF_RANGE for a value  *)
(* outside the type's range.                                               *)
(***************************************************************************)
Written(buf, offset, bytes) ==
    [ok |-> TRUE, buf |-> Put(buf, offset, bytes), off |-> offset + Len(bytes)]

OutOfRange == Throw("ERR_OUT_OF_RANGE")

writeScalarLE(buf, offset, type, value) ==
    CASE type \in {"char", "int8_t"} ->
            IF value < -128 \/ value > 127 THEN OutOfRange
            ELSE Written(buf, offset, <<value % 256>>)
      [] type = "uint8_t" ->
            IF value < 0 \/ value > 255 THEN OutOfRange
            ELSE Written(buf, offset, <<value>>)
      [] type = "int16_t" ->
            IF value < -32768 \/ value > 32767 THEN OutOfRange
            ELSE Written(buf, offset, Bytes16(value % 65536))
      [] type = "uint16_t" ->
            IF value < 0 \/ value > 65535 THEN OutOfRange
            ELSE Written(buf, offset, Bytes16(value))
      [] type = "int32_t" ->
            Written(buf, offset, Bytes32(Lo32(value)))
      [] type = "uint32_t" ->
            IF value < 0 THEN OutOfRange
            ELSE Written(buf, offset, Bytes32(Lo32(value)))
      [] type = "int64_t" ->
            LET lo == Lo32(value)
                hi == Hi32(value)
            IN  \* buf.writeInt32LE(Number(hi), offset+4) with hi in 0..2^32-1
                IF hi[2] >= 32768 THEN OutOfRange
                ELSE Written(buf, offset, Bytes32(lo) \o Bytes32(hi))
      [] type = "uint64_t" ->
            LET lo == Lo32(value)
                hi == Hi32(value)
            IN  Written(buf, offset, Bytes32(lo) \o Bytes32(hi))
      [] OTHER -> Throw("Unsupported type")

(***************************************************************************)
(* readScalarLE: the value and the next offset, or the error thrown.       *)
(* Buffer.read[U]IntN throws ERR_OUT_OF_RANGE when the bytes are not all   *)
(* inside the buffer.                                                      *)
(***************************************************************************)
WasRead(v, o) == [ok |-> TRUE, val |-> v, off |-> o]

readScalarLE(buf, offset, type) ==
    IF type \notin DOMAIN typeSize THEN Throw("Unsupported type")
    ELSE IF offset + typeSize[type] > Len(buf) THEN OutOfRange
    ELSE CASE type \in {"char", "int8_t"} ->
                 WasRead(IF buf[offset + 1] >= 128 THEN buf[offset + 1] - 256
                         ELSE buf[offset + 1], offset + 1)
           [] type = "uint8_t" -> WasRead(buf[offset + 1], offset + 1)
           [] type = "int16_t" ->
                 WasRead(IF Read16(buf, offset) >= 32768 THEN Read16(buf, offset) - 65536
                         ELSE Read16(buf, offset), offset + 2)
           [] type = "uint16_t" -> WasRead(Read16(buf, offset), offset + 2)
           [] type = "int32_t" -> WasRead(Num32(buf, offset, TRUE), offset + 4)
           [] type = "uint32_t" -> WasRead(Num32(buf, offset, FALSE), offset + 4)
           [] type = "int64_t" -> WasRead(Num64(buf, offset, TRUE), offset + 8)
           [] type = "uint64_t" -> WasRead(Num64(buf, offset, FALSE), offset + 8)

(***************************************************************************)
(* packPayload.  payloadObj is a function from the supplied field names    *)
(* to their values: a number for a scalar, a sequence of numbers for a     *)
(* numeric array, a string for a char[n].                                  *)
(***************************************************************************)
Min(a, b) == IF a < b THEN a ELSE b

TotalLen(fieldsSorted) ==
    LET RECURSIVE Sum(_)
        Sum(k) == IF k > Len(fieldsSorted) THEN 0 ELSE FieldSize(fieldsSorted[k]) + Sum(k + 1)
    IN  Sum(1)

RECURSIVE PackArray(_, _, _, _, _, _)
PackArray(buf, off, type, arr, i, arrLen) ==
    IF i >= arrLen THEN [ok |-> TRUE, buf |-> buf, off |-> off]
    ELSE LET v == IF i + 1 <= Len(arr) THEN arr[i + 1] ELSE 0
             w == writeScalarLE(buf, off, type, v)
         IN  IF ~w.ok THEN w ELSE PackArray(w.buf, w.off, type, arr, i + 1, arrLen)

RECURSIVE PackFields(_, _, _, _, _)
PackFields(fieldsSorted, k, payloadObj, buf, off) ==
    IF k > Len(fieldsSorted) THEN [ok |-> TRUE, val |-> buf]
    ELSE LET f      == fieldsSorted[k]
             has    == f.name \in DOMAIN payloadObj
             arrLen == f.arrayLen
         IN  IF arrLen # 0 /\ f.type = "char"
             THEN LET b   == IF has THEN payloadObj[f.name] ELSE << >>
                      len == Min(arrLen, Len(b))
                  IN  PackFields(fieldsSorted, k + 1, payloadObj,
                                 Put(Put(buf, off, SubSeq(b, 1, len)),
                                     off + len, Zeros(arrLen - len)),
                                 off + arrLen)
             ELSE LET w == IF arrLen # 0
                           THEN PackArray(buf, off, f.type,
                                          IF has THEN payloadObj[f.name] ELSE << >>,
                                          0, arrLen)
                           ELSE writeScalarLE(buf, off, f.type,
                                              IF has THEN payloadObj[f.name] ELSE 0)
                  IN  IF ~w.ok THEN w
                      ELSE PackFields(fieldsSorted, k + 1, payloadObj, w.buf, w.off)

packPayload(messageDef, payloadObj) ==
    LET fieldsSorted == sortFieldsForPacking(messageDef.fields)
    IN  PackFields(fieldsSorted, 1, payloadObj, Zeros(TotalLen(fieldsSorted)), 0)

(***************************************************************************)
(* unpackPayload.                                                          *)
(***************************************************************************)
\* slice.subarray(0, nul < 0 ? slice.length : nul) for nul = slice.indexOf(0)
UpToNul(slice) ==
    LET zs == {i \in 1..Len(slice) : slice[i] = 0}
    IN  IF zs = {} THEN slice
        ELSE SubSeq(slice, 1, (CHOOSE i \in zs : \A j \in zs : i <= j) - 1)

RECURSIVE UnpackArray(_, _, _, _, _, _)
UnpackArray(payload, off, type, arr, i, arrLen) ==
    IF i >= arrLen THEN WasRead(arr, off)
    ELSE LET r == readScalarLE(payload, off, type)
         IN  IF ~r.ok THEN r
             ELSE UnpackArray(payload, r.off, type, Append(arr, r.val), i + 1, arrLen)

RECURSIVE UnpackFields(_, _, _, _, _)
UnpackFields(fieldsSorted, k, payload, obj, off) ==
    IF k > Len(fieldsSorted) THEN [ok |-> TRUE, val |-> obj]
    ELSE LET f      == fieldsSorted[k]
             arrLen == f.arrayLen
         IN  IF arrLen # 0 /\ f.type = "char"
             THEN UnpackFields(fieldsSorted, k + 1, payload,
                               (f.name :> UpToNul(subarray(payload, off, off + arrLen))) @@ obj,
                               off + arrLen)
             ELSE LET r == IF arrLen # 0
                           THEN UnpackArray(payload, off, f.type, << >>, 0, arrLen)
                           ELSE readScalarLE(payload, off, f.type)
                  IN  IF ~r.ok THEN r
                      ELSE UnpackFields(fieldsSorted, k + 1, payload,
                                        (f.name :> r.val) @@ obj, r.off)

EmptyObj == [n \in {} |-> 0]

unpackPayload(messageDef, payload) ==
    UnpackFields(sortFieldsForPacking(messageDef.fields), 1, payload, EmptyObj, 0)


(***************************************************************************)
(* buildFrameV2.  opts carries seq, sysid, compid, incompatFlags and       *)
(* compatFlags.                                                            *)
(***************************************************************************)
\* a header whose system id and component id bytes are exchanged
FrameHeader_IdsSwapped(messageDef, payload, opts) ==
    <<MAGIC_V2,
      Len(payload) % 256,
      opts.incompatFlags % 256,
      opts.compatFlags % 256,
      opts.seq % 256,
      opts.compid % 256,
      opts.sysid % 256,
      messageDef.id % 256,
      (messageDef.id \div 256) % 256,
      (messageDef.id \div 65536) % 256>>

FrameHeader(messageDef, payload, opts) ==
    <<MAGIC_V2,
      Len(payload) % 256,
      opts.incompatFlags % 256,
      opts.compatFlags % 256,
      opts.seq % 256,
      opts.sysid % 256,
      opts.compid % 256,
      messageDef.id % 256,
      (messageDef.id \div 256) % 256,
      (messageDef.id \div 65536) % 256>>

\* the frame checksum: X.25 over bytes 1.. of the header and the payload,
\* then the message's CRC extra
FrameCrc(header, payload, crcExtra) ==
    crcAccumulate(crcExtra % 256, crcX25(Tail(header) \o payload))

\* a builder whose checksum also covers the magic byte
buildFrameV2_CrcOverMagic(messageDef, payload, opts) ==
    LET header == FrameHeader(messageDef, payload, opts)
    IN  header \o payload \o
        Bytes16(crcAccumulate(messageDef.crc % 256, crcX25(header \o payload)))

buildFrameV2(messageDef, payload, opts) ==
    LET header == FrameHeader(messageDef, payload, opts)
    IN  header \o payload \o Bytes16(FrameCrc(header, payload, messageDef.crc))

(***************************************************************************)
(* scanFramesV2: the objects the generator yields, in order, and the       *)
(* position at which the loop broke off at a marker (-1 when it ran to     *)
(* the end of the buffer).                                                 *)
(***************************************************************************)
HeaderLen == 10

CrcLen == 2

\* the first position j >= i holding the marker, Len(buf) when there is none:
\* where the loop arrives after its `continue`s
NextMarker(buf, i) ==
    LET ms == {j \in i..(Len(buf) - 1) : buf[j + 1] = MAGIC_V2}
    IN  IF ms = {} THEN Len(buf) ELSE CHOOSE j \in ms : \A m \in ms : j <= m

\* a scanner that forgets the two CRC bytes in the frame length
RECURSIVE ScanLoop_NoCrcLen(_, _, _)
ScanLoop_NoCrcLen(buf, from, yielded) ==
    LET i == NextMarker(buf, from)
    IN  IF i >= Len(buf) THEN [frames |-> yielded, brk |-> -1]
        ELSE IF i + HeaderLen > Len(buf) THEN [frames |-> yielded, brk |-> i]
        ELSE LET len      == buf[i + 2]
                 frameLen == HeaderLen + len
             IN  IF i + frameLen > Len(buf) THEN [frames |-> yielded, brk |-> i]
                 ELSE ScanLoop_NoCrcLen(buf, i + frameLen,
                               Append(yielded, [start |-> i, end |-> i + frameLen,
                                                frameBuf |-> SubSeq(buf, i + 1, i + frameLen)]))

\* a scanner that takes the payload length from the byte after the length byte
RECURSIVE ScanLoop_LenFromFlags(_, _, _)
ScanLoop_LenFromFlags(buf, from, yielded) ==
    LET i == NextMarker(buf, from)
    IN  IF i >= Len(buf) THEN [frames |-> yielded, brk |-> -1]
        ELSE IF i + HeaderLen > Len(buf) THEN [frames |-> yielded, brk |-> i]
        ELSE LET len      == buf[i + 3]
                 frameLen == HeaderLen + len + CrcLen
             IN  IF i + frameLen > Len(buf) THEN [frames |-> yielded, brk |-> i]
                 ELSE ScanLoop_LenFromFlags(buf, i + frameLen,
                               Append(yielded, [start |-> i, end |-> i + frameLen,
                                                frameBuf |-> SubSeq(buf, i + 1, i + frameLen)]))

RECURSIVE ScanLoop(_, _, _)
ScanLoop(buf, from, yielded) ==
    LET i == NextMarker(buf, from)
    IN  IF i >= Len(buf) THEN [frames |-> yielded, brk |-> -1]
        ELSE IF i + HeaderLen > Len(buf) THEN [frames |-> yielded, brk |-> i]
        ELSE LET len      == buf[i + 2]
                 frameLen == HeaderLen + len + CrcLen
             IN  IF i + frameLen > Len(buf) THEN [frames |-> yielded, brk |-> i]
                 ELSE ScanLoop(buf, i + frameLen,
                               Append(yielded, [start |-> i, end |-> i + frameLen,
                                                frameBuf |-> SubSeq(buf, i + 1, i + frameLen)]))

scanFramesV2(buf) == ScanLoop(buf, 0, << >>).frames

(***************************************************************************)
(* The schema catalog.  messages is the catalog's name -> definition       *)
(* object, kept as the sequence of its entries in key order.               *)
(***************************************************************************)
Field(n, t, l) == [name |-> n, type |-> t, arrayLen |-> l]

Dialect ==
    << [name |-> "HEARTBEAT", id |-> 0, crc |-> 50,
        fields |-> <<Field("custom_mode", "uint32_t", 0), Field("type", "uint8_t", 0),
                     Field("autopilot", "uint8_t", 0), Field("base_mode", "uint8_t", 0),
                     Field("system_status", "uint8_t", 0),
                     Field("mavlink_version", "uint8_t", 0)>>],
       [name |-> "NOTE", id |-> 253, crc |-> 83,
        fields |-> <<Field("severity", "uint8_t", 0), Field("text", "char", 3)>>],
       [name |-> "RANGE", id |-> 65794, crc |-> 200,
        fields |-> <<Field("distance", "int16_t", 0)>>],
       [name |-> "BULK", id |-> 300, crc |-> 9,
        fields |-> <<Field("data", "uint64_t", 32)>>] >>

NoSchema == [loaded |-> FALSE, messages |-> << >>]

getMessages == IF schema.loaded THEN schema.messages ELSE << >>

\* Object.values(messages).find(m => m.id === msgid): 0 when there is none
FindById(messages, msgid) ==
    LET ks == {k \in 1..Len(messages) : messages[k].id = msgid}
    IN  IF ks = {} THEN 0 ELSE CHOOSE k \in ks : \A j \in ks : k <= j

\* messages[messageName]: 0 when there is none
FindByName(messages, messageName) ==
    LET ks == {k \in 1..Len(messages) : messages[k].name = messageName}
    IN  IF ks = {} THEN 0 ELSE CHOOSE k \in ks : \A j \in ks : k <= j

(***************************************************************************)
(* mavlink-parse: the body of the input handler's loop for one candidate   *)
(* frame, and the handler.                                                 *)
(***************************************************************************)
FrameMsgId(frame) == frame[8] + 256 * frame[9] + 65536 * frame[10]

FramePayload(frame) == subarray(frame, 10, 10 + frame[2])

FrameCrcRx(frame) == Read16(frame, 10 + frame[2])

ChecksumOk(msgDef, frame) ==
    FrameCrc(SubSeq(frame, 1, 10), FramePayload(frame), msgDef.crc) = FrameCrcRx(frame)

\* a loop body that names the message before it tries to decode it
ParseOne_NameBeforeDecode(messages, frame) ==
    LET msgid      == FrameMsgId(frame)
        payload    == FramePayload(frame)
        k          == FindById(messages, msgid)
        checksumOk == IF k # 0 THEN ChecksumOk(messages[k], frame) ELSE FALSE
        meta       == [msgid |-> msgid, seq |-> frame[5], sysid |-> frame[6],
                       compid |-> frame[7], incompatFlags |-> frame[3],
                       compatFlags |-> frame[4], checksumOk |-> checksumOk]
        dec        == IF k # 0 /\ checksumOk THEN unpackPayload(messages[k], payload)
                      ELSE Idle
    IN  IF k # 0 /\ checksumOk
        THEN [_raw |-> frame, payloadRaw |-> payload,
              mavlink |-> ("name" :> messages[k].name) @@ meta,
              payload |-> IF dec.ok THEN dec.val ELSE payload]
        ELSE [_raw |-> frame, payloadRaw |-> payload, mavlink |-> meta,
              payload |-> payload]

ParseOne(messages, frame) ==
    LET msgid      == FrameMsgId(frame)
        payload    == FramePayload(frame)
        k          == FindById(messages, msgid)
        checksumOk == IF k # 0 THEN ChecksumOk(messages[k], frame) ELSE FALSE
        meta       == [msgid |-> msgid, seq |-> frame[5], sysid |-> frame[6],
                       compid |-> frame[7], incompatFlags |-> frame[3],
                       compatFlags |-> frame[4], checksumOk |-> checksumOk]
        dec        == IF k # 0 /\ checksumOk THEN unpackPayload(messages[k], payload)
                      ELSE Idle
    IN  IF dec.ok
        THEN [_raw |-> frame, payloadRaw |-> payload,
              mavlink |-> ("name" :> messages[k].name) @@ meta,
              payload |-> dec.val]
        ELSE [_raw |-> frame, payloadRaw |-> payload, mavlink |-> meta,
              payload |-> payload]

\* a handler whose loop ends at the first frame it cannot decode
ParseSends_StopAtFailure(messages, buf) ==
    LET cands == scanFramesV2(buf)
        outs  == [k \in 1..Len(cands) |-> ParseOne(messages, cands[k].frameBuf)]
        bad   == {k \in 1..Len(cands) : "name" \notin DOMAIN outs[k].mavlink}
    IN  IF bad = {} THEN outs
        ELSE SubSeq(outs, 1, CHOOSE k \in bad : \A j \in bad : k <= j)

\* a handler that sends nothing for a frame whose checksum does not verify
ParseSends_DropUnverified(messages, buf) ==
    LET cands == scanFramesV2(buf)
    IN  SelectSeq([k \in 1..Len(cands) |-> ParseOne(messages, cands[k].frameBuf)],
                  LAMBDA out : out.mavlink.checksumOk)

\* the messages the handler sends for msg.payload = buf, in order
ParseSends(messages, buf) ==
    LET cands == scanFramesV2(buf)
    IN  [k \in 1..Len(cands) |-> ParseOne(messages, cands[k].frameBuf)]

(***************************************************************************)
(* mavlink-build: the input handler.  The result is the message sent, or   *)
(* the error passed to done().                                             *)
(***************************************************************************)
\* a handler that reports the counter's value after the increment
BuildHandler_SeqAfterIncrement(messageName, payloadObj, opts) ==
    IF ~schema.loaded THEN Throw("No schema loaded")
    ELSE IF messageName = "" THEN Throw("No message selected")
    ELSE LET k == FindByName(schema.messages, messageName)
         IN  IF k = 0 THEN Throw("not in schema")
             ELSE LET def == schema.messages[k]
                      p   == packPayload(def, payloadObj)
                  IN  IF ~p.ok THEN p
                      ELSE [ok |-> TRUE,
                            payload |-> buildFrameV2(def, p.val,
                                           [seq |-> seq % 256, sysid |-> opts.sysid,
                                            compid |-> opts.compid,
                                            incompatFlags |-> opts.incompatFlags,
                                            compatFlags |-> opts.compatFlags]),
                            mavlink |-> [name |-> messageName, id |-> def.id,
                                         seq |-> (seq + 1) % 256, sysid |-> opts.sysid,
                                         compid |-> opts.compid]]

BuildHandler(messageName, payloadObj, opts) ==
    IF ~schema.loaded THEN Throw("No schema loaded")
    ELSE IF messageName = "" THEN Throw("No message selected")
    ELSE LET k == FindByName(schema.messages, messageName)
         IN  IF k = 0 THEN Throw("not in schema")
             ELSE LET def == schema.messages[k]
                      p   == packPayload(def, payloadObj)
                  IN  IF ~p.ok THEN p
                      ELSE [ok |-> TRUE,
                            payload |-> buildFrameV2(def, p.val,
                                           [seq |-> seq % 256, sysid |-> opts.sysid,
                                            compid |-> opts.compid,
                                            incompatFlags |-> opts.incompatFlags,
                                            compatFlags |-> opts.compatFlags]),
                            mavlink |-> [name |-> messageName, id |-> def.id,
                                         seq |-> seq % 256, sysid |-> opts.sysid,
                                         compid |-> opts.compid]]


(***************************************************************************)
(* The flow: a schema config node, a build node and a parse node attached  *)
(* to it, and the link that carries the build node's frames, or a peer's,  *)
(* to the parse node.                                                      *)
(***************************************************************************)
MaxBuilds == 2

NodeSysid == 1

NodeCompid == 1

\* msg.sysid, msg.compid, msg.incompatFlags, msg.compatFlags after the ?? defaults
BuildOpts ==
    {[sysid |-> NodeSysid, compid |-> NodeCompid, incompatFlags |-> 0, compatFlags |-> 0],
     [sysid |-> 300, compid |-> 253, incompatFlags |-> 1, compatFlags |-> 255]}

\* node.messageName || msg.messageName
BuildNames == {"HEARTBEAT", "NOTE", "RANGE", "", "NOPE"}

\* msg.payload of a build input: no field, every field in range, fields out of range
BuildObjs ==
    {EmptyObj,
     [custom_mode |-> 65541, type |-> 2, autopilot |-> 3, base_mode |-> 253,
      system_status |-> 4, mavlink_version |-> 3, severity |-> 6,
      text |-> <<72, 105>>, distance |-> -2, data |-> <<1, 253, 3>>],
     [type |-> 256, severity |-> -1, distance |-> 40000, data |-> <<300>>]}

\* a peer's definitions: the dialect's, and one message the dialect lacks
PeerDefs ==
    {Dialect[k] : k \in 1..3} \cup
    {[name |-> "EXTRA", id |-> 77, crc |-> 1, fields |-> <<Field("x", "uint8_t", 0)>>]}

PeerOpts == [seq |-> 9, sysid |-> 42, compid |-> 7, incompatFlags |-> 0, compatFlags |-> 0]

\* MAVLink 2 senders drop the trailing zero bytes of a payload, keeping one byte
RECURSIVE ZeroTrim(_)
ZeroTrim(payload) ==
    IF Len(payload) > 1 /\ payload[Len(payload)] = 0
    THEN ZeroTrim(SubSeq(payload, 1, Len(payload) - 1))
    ELSE payload

\* the byte offsets at which the link may corrupt a frame
CorruptOffsets(frame) == {i \in 0..(Len(frame) - 1) : i <= 10 \/ i >= Len(frame) - 2}

\* the inputs of the build node: <<message name, msg.payload, options>>; the
\* oversized message is requested with one payload and one set of options
BuildInputs ==
    (BuildNames \X BuildObjs \X BuildOpts) \cup
    {<<"BULK", EmptyObj, [sysid |-> NodeSysid, compid |-> NodeCompid,
                          incompatFlags |-> 0, compatFlags |-> 0]>>}

NoOpts == [sysid |-> NodeSysid, compid |-> NodeCompid, incompatFlags |-> 0, compatFlags |-> 0]

NotBuilt == [res |-> Idle, name |-> "", obj |-> EmptyObj, opts |-> NoOpts]

NotParsed == [done |-> FALSE, buf |-> << >>, sent |-> << >>]

NoStream == [frames |-> << >>, noise |-> << << >> >>]

IOIdle ==
    /\ stream = NoStream
    /\ pos = 0
    /\ rxBuf = << >>
    /\ ioSent = << >>
    /\ ioCalls = "none"
    /\ shortFirst = FALSE

\* a schema config node that has not run ensureSchema
NoRun == [kind |-> "none", downloaded |-> FALSE, produced |-> FALSE]

CatIdle ==
    /\ autoDownload = FALSE
    /\ zipState = "none"
    /\ upstream = 1
    /\ xmlVer = 0
    /\ schemaFile = 0
    /\ heap = << >>
    /\ nodeSchema = 0
    /\ held = {}
    /\ inflight = << >>
    /\ started = 0
    /\ lastRun = NoRun

FlowIdle ==
    /\ schema = NoSchema
    /\ parseNode = [created |-> FALSE, messages |-> << >>]
    /\ seq = 0
    /\ built = NotBuilt
    /\ wire = << >>
    /\ parsed = NotParsed

\* ensureSchema completes: node.schema = schema
SchemaLoaded ==
    /\ ~schema.loaded
    /\ schema' = [loaded |-> TRUE, messages |-> Dialect]
    /\ UNCHANGED <<parseNode, seq, built, wire, parsed, codecVars, ioVars, catVars, crcVars>>

\* MavlinkParseNode(config): const messages = node.schemaCfg.getMessages()
CreateParseNode ==
    /\ ~parseNode.created
    /\ parseNode' = [created |-> TRUE, messages |-> getMessages]
    /\ UNCHANGED <<schema, seq, built, wire, parsed, codecVars, ioVars, catVars, crcVars>>

\* mavlink-build input handler
BuildStep(in, limit) ==
    LET r == BuildHandler(in[1], in[2], in[3])
    IN  /\ seq < limit
        /\ built' = [res |-> r, name |-> in[1], obj |-> in[2], opts |-> in[3]]
        /\ seq' = IF r.ok THEN seq + 1 ELSE seq
        /\ wire' = << >>
        /\ parsed' = NotParsed
        /\ UNCHANGED <<schema, parseNode, codecVars, ioVars, catVars, crcVars>>

BuildInput == \E in \in BuildInputs : BuildStep(in, MaxBuilds)

\* the link carries the built frame unchanged
Deliver ==
    /\ built.res.ok
    /\ wire = << >>
    /\ ~parsed.done
    /\ wire' = built.res.payload
    /\ UNCHANGED <<schema, parseNode, seq, built, parsed, codecVars, ioVars, catVars, crcVars>>

\* the link carries the built frame with one byte changed
Corrupt ==
    /\ built.res.ok
    /\ wire = << >>
    /\ ~parsed.done
    /\ \E i \in CorruptOffsets(built.res.payload) :
          wire' = [built.res.payload EXCEPT ![i + 1] = (@ + 1) % 256]
    /\ UNCHANGED <<schema, parseNode, seq, built, parsed, codecVars, ioVars, catVars, crcVars>>

\* the link carries a peer's frame, its payload zero-trimmed
PeerSend ==
    /\ wire = << >>
    /\ ~parsed.done
    /\ \E def \in PeerDefs, payloadObj \in BuildObjs :
          /\ packPayload(def, payloadObj).ok
          /\ wire' = buildFrameV2(def, ZeroTrim(packPayload(def, payloadObj).val), PeerOpts)
    /\ built' = NotBuilt
    /\ UNCHANGED <<schema, parseNode, seq, parsed, codecVars, ioVars, catVars, crcVars>>

\* mavlink-parse input handler on msg.payload = wire
ParseInput ==
    /\ parseNode.created
    /\ wire # << >>
    /\ parsed' = [done |-> TRUE, buf |-> wire, sent |-> ParseSends(parseNode.messages, wire)]
    /\ wire' = << >>
    /\ UNCHANGED <<schema, parseNode, seq, built, codecVars, ioVars, catVars, crcVars>>

(***************************************************************************)
(* One msg.payload that holds several frames back to back: frames that     *)
(* decode, a frame whose checksum fails, a frame of a message the dialect  *)
(* lacks, and a frame whose zero-trimmed payload is too short to decode.   *)
(***************************************************************************)
MaxBurst == 3

BurstFrames ==
    LET hb == buildFrameV2(Dialect[1],
                           packPayload(Dialect[1], [custom_mode |-> 65541, type |-> 2]).val,
                           PeerOpts)
    IN  {hb,
         [hb EXCEPT ![Len(hb)] = (@ + 1) % 256],
         buildFrameV2(Dialect[2],
                      packPayload(Dialect[2], [severity |-> 253, text |-> <<72, 105>>]).val,
                      PeerOpts),
         buildFrameV2(Dialect[3], ZeroTrim(packPayload(Dialect[3], EmptyObj).val), PeerOpts),
         buildFrameV2([name |-> "EXTRA", id |-> 77, crc |-> 1,
                       fields |-> <<Field("x", "uint8_t", 0)>>], <<5>>, PeerOpts)}

Bursts == UNION {[1..n -> BurstFrames] : n \in 1..MaxBurst}

RECURSIVE Flatten(_, _)
Flatten(seqs, k) == IF k > Len(seqs) THEN << >> ELSE seqs[k] \o Flatten(seqs, k + 1)

\* the bytes before the first frame: none, a noise byte, a stray marker
BurstHeads == {<< >>, <<0>>, <<MAGIC_V2>>}

\* the bytes after the last frame: none, a noise byte, the start of a frame
BurstTails == {<< >>, <<0>>, <<MAGIC_V2, 9, 0>>}

\* the link delivers a burst of frames as one buffer
CarryBurst ==
    /\ wire = << >>
    /\ ~parsed.done
    /\ \E b \in Bursts, h \in BurstHeads, t \in BurstTails : wire' = h \o Flatten(b, 1) \o t
    /\ built' = NotBuilt
    /\ UNCHANGED <<schema, parseNode, seq, parsed, codecVars, ioVars, catVars, crcVars>>

CodecIdle ==
    /\ cdef = [name |-> "", id |-> 0, crc |-> 0, fields |-> << >>]
    /\ cvals = EmptyObj
    /\ cpacked = Idle
    /\ cbytes = << >>
    /\ cunpacked = Idle

Init == FlowIdle /\ CodecIdle /\ IOIdle /\ CatIdle /\ CrcIdle

Next == SchemaLoaded \/ CreateParseNode \/ BuildInput \/ Deliver \/ Corrupt \/ PeerSend \/ ParseInput

Spec == Init /\ [][Next]_vars

BurstNext == SchemaLoaded \/ CreateParseNode \/ CarryBurst \/ ParseInput

SpecBurst == Init /\ [][BurstNext]_vars


(***************************************************************************)
(* Claims about the build node, the link and the parse node (Spec).        *)
(***************************************************************************)
BuiltFrame == built.res.payload

BuiltDef == schema.messages[FindByName(schema.messages, built.name)]

BuiltPacked == packPayload(BuiltDef, built.obj).val

WholeFrame(buf) == <<[start |-> 0, end |-> Len(buf), frameBuf |-> buf]>>

ParsedBuilt ==
    /\ built.res.ok
    /\ parsed.done
    /\ parsed.buf = BuiltFrame
    /\ Len(BuiltPacked) <= 255
    /\ FindByName(parseNode.messages, built.name) # 0

\* C1: a frame built from a definition whose packed payload is at most 255
\* bytes scans back as exactly one candidate, the frame itself, and a parse
\* node that has the definition sends exactly one message for it, checksum
\* valid, named after the definition, its payload the decoded fields.
C1_BuildScanParse ==
    ParsedBuilt =>
        /\ scanFramesV2(BuiltFrame) = WholeFrame(BuiltFrame)
        /\ Len(parsed.sent) = 1
        /\ parsed.sent[1]._raw = BuiltFrame
        /\ parsed.sent[1].mavlink.checksumOk
        /\ "name" \in DOMAIN parsed.sent[1].mavlink
        /\ parsed.sent[1].mavlink.name = built.name
        /\ parsed.sent[1].payload = unpackPayload(BuiltDef, BuiltPacked).val

C1_Witness ==
    /\ ParsedBuilt
    /\ built.name = "HEARTBEAT"
    /\ DOMAIN built.obj # {}
    /\ parsed.sent[1].payload.custom_mode = 65541

\* C26: once the schema node has loaded its catalog, the parse node attached
\* to it reports a frame built by the build node on the same schema node as
\* known and checksum-valid, whether the parse node was created before the
\* load or after it.
C26_CatalogFreshness ==
    (/\ schema.loaded
     /\ built.res.ok
     /\ Len(BuiltPacked) <= 255
     /\ parsed.done
     /\ parsed.buf = BuiltFrame) =>
        /\ Len(parsed.sent) = 1
        /\ FindById(parseNode.messages, FrameMsgId(BuiltFrame)) # 0
        /\ parsed.sent[1].mavlink.checksumOk
        /\ "name" \in DOMAIN parsed.sent[1].mavlink

\* the candidates of the parsed buffer, and facts about the k-th of them
Cands == scanFramesV2(parsed.buf)

CandFrame(k) == Cands[k].frameBuf

CandDef(k) == FindById(parseNode.messages, FrameMsgId(CandFrame(k)))

CandKnown(k) == CandDef(k) # 0

CandCrcOk(k) == ChecksumOk(parseNode.messages[CandDef(k)], CandFrame(k))

CandDecodes(k) ==
    unpackPayload(parseNode.messages[CandDef(k)], FramePayload(CandFrame(k))).ok

\* C5: for every candidate frame of a known message whose trailing CRC
\* differs from the computed one, the parse node sends exactly one message,
\* checksumOk false, the raw payload bytes as payload, undecoded.
C5_ChecksumMismatchSurfaced ==
    parsed.done =>
        /\ Len(parsed.sent) = Len(Cands)
        /\ \A k \in 1..Len(Cands) :
              (CandKnown(k) /\ ~CandCrcOk(k)) =>
                  /\ parsed.sent[k]._raw = CandFrame(k)
                  /\ parsed.sent[k].mavlink.checksumOk = FALSE
                  /\ "name" \notin DOMAIN parsed.sent[k].mavlink
                  /\ parsed.sent[k].payload = FramePayload(CandFrame(k))

C5_Witness ==
    /\ parsed.done
    /\ Len(Cands) = 1
    /\ CandKnown(1)
    /\ ~CandCrcOk(1)
    /\ Len(parsed.sent) = 1
    /\ Len(FramePayload(CandFrame(1))) > 0

\* a one-message catalog that knows msgid and fails the frame's checksum
KnownButFailing(frame) ==
    LET def(c) == [name |-> "KNOWN", id |-> FrameMsgId(frame), crc |-> c, fields |-> << >>]
    IN  <<def(CHOOSE c \in 0..255 : ~ChecksumOk(def(c), frame))>>

\* C6: by a parse node that holds the dialect, the message sent for a
\* frame of a message the dialect lacks carries the raw
\* payload and metadata that differs from the metadata sent for the same
\* frame when the message is known and its checksum fails.
C6_UnknownMarked ==
    (parsed.done /\ parseNode.messages = Dialect) =>
        \A k \in 1..Len(Cands) :
            ~CandKnown(k) =>
                /\ parsed.sent[k].payload = FramePayload(CandFrame(k))
                /\ parsed.sent[k].mavlink #
                      ParseOne(KnownButFailing(CandFrame(k)), CandFrame(k)).mavlink

C8_NoOversizedFrame ==
    built.res.ok =>
        /\ Len(BuiltPacked) <= 255
        /\ BuiltFrame[2] = Len(BuiltPacked)
        /\ Len(BuiltFrame) = 12 + BuiltFrame[2]

\* C14: a frame built from a payload of L <= 255 bytes has 12 + L bytes:
\* 0xFD, L, the two flag bytes, seq, sysid and compid (each mod 256), the
\* message id little-endian in three bytes, the payload unchanged, and the
\* checksum little-endian, computed over bytes 1..9+L from seed 0xFFFF
\* with the CRC extra accumulated last.
C14_FrameLayout ==
    (built.res.ok /\ Len(BuiltPacked) <= 255) =>
        LET frame == BuiltFrame
            L     == Len(BuiltPacked)
            crc   == crcAccumulate(BuiltDef.crc % 256,
                                   crcFold(frame, 2, 10 + L, 65535) % 65536)
        IN  /\ Len(frame) = 12 + L
            /\ frame[1] = 253
            /\ frame[2] = L
            /\ frame[3] = built.opts.incompatFlags % 256
            /\ frame[4] = built.opts.compatFlags % 256
            /\ frame[5] = built.res.mavlink.seq % 256
            /\ frame[6] = built.opts.sysid % 256
            /\ frame[7] = built.opts.compid % 256
            /\ frame[8] + 256 * frame[9] + 65536 * frame[10] = BuiltDef.id
            /\ SubSeq(frame, 11, 10 + L) = BuiltPacked
            /\ frame[11 + L] = crc % 256
            /\ frame[12 + L] = crc \div 256

C14_Witness ==
    /\ built.res.ok
    /\ built.name = "RANGE"
    /\ built.opts.sysid = 300
    /\ BuiltFrame[6] = 44
    /\ BuiltFrame[7] = 253
    /\ BuiltFrame[5] = 1
    /\ <<BuiltFrame[8], BuiltFrame[9], BuiltFrame[10]>> = <<2, 1, 1>>
    /\ Len(BuiltFrame) = 14


(***************************************************************************)
(* One build node handling a long run of inputs, good and failing, so      *)
(* that its sequence counter passes 255.                                   *)
(***************************************************************************)
MaxSeqBuilds == 258

\* a message that builds, one the schema lacks, none, one packPayload rejects
SeqInputs ==
    {<<"RANGE", EmptyObj, NoOpts>>,
     <<"NOPE", EmptyObj, NoOpts>>,
     <<"", EmptyObj, NoOpts>>,
     <<"RANGE", [distance |-> 40000], NoOpts>>}

BuildMany == \E in \in SeqInputs : BuildStep(in, MaxSeqBuilds)

SeqNext == SchemaLoaded \/ BuildMany

SpecSeq == Init /\ [][SeqNext]_vars

\* C15: an input that emits a frame gives it the sequence byte (frames
\* emitted so far) mod 256, reports the same value in msg.mavlink.seq and
\* advances the counter by one; an input that fails emits no frame and
\* leaves the counter alone.  The counter starts at 0, so the k-th frame
\* carries k mod 256 and consecutive frames differ by 1 mod 256.
C15_SequenceNumbering ==
    [][IF built'.res.ok /\ (built' # built \/ seq' # seq)
       THEN /\ seq' = seq + 1
            /\ built'.res.payload[5] = seq % 256
            /\ built'.res.mavlink.seq = seq % 256
       ELSE seq' = seq]_vars

C15_Witness ==
    /\ seq = 257
    /\ built.res.ok
    /\ BuiltFrame[5] = 0
    /\ built.res.mavlink.seq = 0


(***************************************************************************)
(* mavlink-io: handleIncoming.  The result is the node.send calls made,    *)
(* in order, and the receive buffer kept.                                  *)
(***************************************************************************)
ResyncBound == 2048

\* buf.lastIndexOf(0xFD): -1 when there is none
lastIndexOf(buf, byte) ==
    LET ms == {j \in 0..(Len(buf) - 1) : buf[j + 1] = byte}
    IN  IF ms = {} THEN -1 ELSE CHOOSE j \in ms : \A m \in ms : j >= m

\* node.send([msg, null]) is output 1, node.send([null, msg]) output 2
\* a routing with the two outputs exchanged
Route_Exchanged(frame) ==
    [out |-> IF FrameMsgId(frame) = 0 THEN 2 ELSE 1,
     msg |-> [topic |-> "mavlink/raw", payload |-> frame]]

Route(frame) ==
    [out |-> IF FrameMsgId(frame) = 0 THEN 1 ELSE 2,
     msg |-> [topic |-> "mavlink/raw", payload |-> frame]]

\* a handler that keeps nothing when the pass completed no frame
handleIncoming_DropPartial(rx, chunk) ==
    LET buf     == rx \o chunk
        frames  == scanFramesV2(buf)
        lastEnd == IF frames = << >> THEN 0 ELSE frames[Len(frames)].end
    IN  [sends |-> [k \in 1..Len(frames) |-> Route(frames[k].frameBuf)],
         rxBuf |-> IF lastEnd > 0 THEN subarray(buf, lastEnd, Len(buf)) ELSE << >>]

\* a handler without the forced resynchronisation
handleIncoming_NoResync(rx, chunk) ==
    LET buf     == rx \o chunk
        frames  == scanFramesV2(buf)
        lastEnd == IF frames = << >> THEN 0 ELSE frames[Len(frames)].end
    IN  [sends |-> [k \in 1..Len(frames) |-> Route(frames[k].frameBuf)],
         rxBuf |-> IF lastEnd > 0 THEN subarray(buf, lastEnd, Len(buf)) ELSE buf]

handleIncoming(rx, chunk) ==
    LET buf     == rx \o chunk
        frames  == scanFramesV2(buf)
        lastEnd == IF frames = << >> THEN 0 ELSE frames[Len(frames)].end
        idx     == lastIndexOf(buf, MAGIC_V2)
    IN  [sends |-> [k \in 1..Len(frames) |-> Route(frames[k].frameBuf)],
         rxBuf |-> IF lastEnd > 0 THEN subarray(buf, lastEnd, Len(buf))
                   ELSE IF Len(buf) > ResyncBound
                        THEN IF idx >= 0 THEN subarray(buf, idx, Len(buf)) ELSE << >>
                        ELSE buf]

(***************************************************************************)
(* The receive stream: up to MaxFrames valid frames back to back, with     *)
(* up to MaxNoise noise bytes in all before, between and after them,       *)
(* delivered by the transport in chunks cut at any byte positions.         *)
(***************************************************************************)
MaxFrames == 2

MaxNoise == 1

NoiseBytes == {0, MAGIC_V2}

\* a heartbeat (message id 0) and a note whose id and payload hold 0xFD bytes
StreamFrames ==
    {buildFrameV2(Dialect[1],
                  packPayload(Dialect[1], [custom_mode |-> 65541, type |-> 2]).val,
                  [seq |-> 0, sysid |-> 1, compid |-> 1,
                   incompatFlags |-> 0, compatFlags |-> 0]),
     buildFrameV2(Dialect[2],
                  packPayload(Dialect[2], [severity |-> 253, text |-> <<72, 105>>]).val,
                  [seq |-> 1, sysid |-> 1, compid |-> 1,
                   incompatFlags |-> 0, compatFlags |-> 0])}

NoiseSeqs == UNION {[1..n -> NoiseBytes] : n \in 0..MaxNoise}

RECURSIVE SumLen(_, _)
SumLen(seqs, k) == IF k > Len(seqs) THEN 0 ELSE Len(seqs[k]) + SumLen(seqs, k + 1)

\* noise[1] precedes the first frame, noise[k + 1] follows the k-th
Streams ==
    UNION {{[frames |-> fs, noise |-> ns] :
               fs \in [1..n -> StreamFrames],
               ns \in {x \in [1..(n + 1) -> NoiseSeqs] : SumLen(x, 1) <= MaxNoise}} :
           n \in 0..MaxFrames}

RECURSIVE StreamFrom(_, _)
StreamFrom(st, k) ==
    IF k > Len(st.frames) THEN << >>
    ELSE st.frames[k] \o st.noise[k + 1] \o StreamFrom(st, k + 1)

StreamBytes(st) == st.noise[1] \o StreamFrom(st, 1)

IOInit ==
    /\ stream \in Streams
    /\ pos = 0
    /\ rxBuf = << >>
    /\ ioSent = << >>
    /\ ioCalls = "none"
    /\ shortFirst = FALSE
    /\ FlowIdle
    /\ CodecIdle
    /\ CatIdle
    /\ CrcIdle

\* the socket's "message" / the port's "data" event with the next n bytes
Incoming ==
    \E n \in 1..(Len(StreamBytes(stream)) - pos) :
        LET chunk == SubSeq(StreamBytes(stream), pos + 1, pos + n)
            r     == handleIncoming(rxBuf, chunk)
        IN  /\ pos' = pos + n
            /\ rxBuf' = r.rxBuf
            /\ ioSent' = ioSent \o r.sends
            /\ ioCalls' = IF ioCalls = "none" THEN "one" ELSE "many"
            /\ shortFirst' = IF ioCalls = "none" THEN n < HeaderLen ELSE shortFirst
            /\ UNCHANGED <<stream, codecVars, flowVars, catVars, crcVars>>

IONext == Incoming

SpecIO == IOInit /\ [][IONext]_vars


(***************************************************************************)
(* Claims about the scanner and the receive buffer (SpecIO).               *)
(***************************************************************************)
SentFrames == [k \in 1..Len(ioSent) |-> ioSent[k].msg.payload]

AllBytes == StreamBytes(stream)

\* the whole stream reached handleIncoming as one buffer, scanned once
ScannedWhole == ioCalls = "one" /\ pos = Len(AllBytes)

NoMarkerInNoise ==
    \A k \in 1..Len(stream.noise) :
        \A j \in 1..Len(stream.noise[k]) : stream.noise[k][j] # MAGIC_V2

C3_PartialFrameRetention ==
    [][LET buf  == rxBuf \o SubSeq(AllBytes, pos + 1, pos')
           pass == ScanLoop(buf, 0, << >>)
       IN  (pos' > pos /\ pass.brk >= 0) =>
               /\ Len(ioSent') = Len(ioSent) + Len(pass.frames)
               /\ rxBuf' = subarray(buf, pass.brk, Len(buf))]_vars

FirstFrame == stream.frames[1]

\* C4: from an empty receive buffer, a valid frame that arrives in chunks
\* cut anywhere is not sent before its last byte has arrived, and is then
\* sent first, byte for byte; when the stream is that frame alone it is the
\* only frame sent.
C4_FragmentedDelivery ==
    (stream.frames # << >> /\ stream.noise[1] = << >>) =>
        /\ pos < Len(FirstFrame) => (ioSent = << >> /\ rxBuf = SubSeq(AllBytes, 1, pos))
        /\ pos >= Len(FirstFrame) => (ioSent # << >> /\ SentFrames[1] = FirstFrame)
        /\ (AllBytes = FirstFrame /\ pos = Len(AllBytes)) => SentFrames = <<FirstFrame>>

C4_Witness ==
    /\ stream.frames # << >>
    /\ AllBytes = FirstFrame
    /\ pos = Len(AllBytes)
    /\ ioCalls = "many"
    /\ shortFirst
    /\ SentFrames = <<FirstFrame>>
    /\ rxBuf = << >>


\* the candidates of one scan over all bytes received so far
Received == scanFramesV2(SubSeq(AllBytes, 1, pos))

\* C16: the frames sent so far are the candidate frames of the bytes
\* received so far, each once and in stream order, each on one output:
\* output 1 when its 24-bit message id is 0, output 2 otherwise.
C16_IORouting ==
    /\ Len(ioSent) = Len(Received)
    /\ \A k \in 1..Len(ioSent) :
          /\ ioSent[k].msg.payload = Received[k].frameBuf
          /\ ioSent[k].out \in {1, 2}
          /\ ioSent[k].out = 1 <=>
                (ioSent[k].msg.payload[8] = 0 /\ ioSent[k].msg.payload[9] = 0
                    /\ ioSent[k].msg.payload[10] = 0)

C16_Witness ==
    /\ ioCalls = "many"
    /\ Len(ioSent) = 2
    /\ ioSent[1].out = 2
    /\ ioSent[1].msg.payload[8] = 253
    /\ ioSent[2].out = 1
    /\ pos = Len(AllBytes)


\* a 0xFD noise byte lies somewhere before the k-th frame of the stream
StrayBefore(k) ==
    \E i \in 1..k : \E j \in 1..Len(stream.noise[i]) : stream.noise[i][j] = MAGIC_V2

\* C19: once all bytes have arrived, every valid frame that begins after a
\* stray 0xFD noise byte has been sent as its own frame, byte for byte.
C19_SpuriousMarkerContained ==
    pos = Len(AllBytes) =>
        \A k \in 1..Len(stream.frames) :
            StrayBefore(k) => \E j \in 1..Len(ioSent) : SentFrames[j] = stream.frames[k]


(***************************************************************************)
(* Long receive streams: runs of noise longer than the resynchronisation   *)
(* bound, with and without markers, delivered in chunks of up to ChunkMax  *)
(* bytes.                                                                   *)
(***************************************************************************)
ChunkMax == 700

NoiseRun == 1500

Markers(n) == [i \in 1..n |-> MAGIC_V2]

\* the start of a frame that announces 255 payload bytes
LongStart == <<MAGIC_V2, 255>>

Heartbeat == CHOOSE f \in StreamFrames : FrameMsgId(f) = 0

BigNoise ==
    {Zeros(2 * NoiseRun),
     Zeros(NoiseRun) \o LongStart \o Zeros(NoiseRun),
     LongStart \o Zeros(2 * NoiseRun),
     Zeros(ResyncBound - 8) \o LongStart \o Zeros(NoiseRun),
     Zeros(ResyncBound - 8) \o <<MAGIC_V2, 0, MAGIC_V2, 255>> \o Zeros(NoiseRun),
     Zeros(ResyncBound - 8) \o LongStart \o <<7, MAGIC_V2>> \o Zeros(NoiseRun),
     Zeros(NoiseRun) \o Markers(NoiseRun)}

BigStreams ==
    {[frames |-> << >>, noise |-> <<n>>] : n \in BigNoise} \cup
    {[frames |-> <<Heartbeat>>, noise |-> <<Zeros(ResyncBound - 8), n>>] : n \in BigNoise}

ChunkSizes == {ChunkMax, ChunkMax \div 2, ChunkMax \div 4}

BigInit ==
    /\ stream \in BigStreams
    /\ pos = 0
    /\ rxBuf = << >>
    /\ ioSent = << >>
    /\ ioCalls = "none"
    /\ shortFirst = FALSE
    /\ FlowIdle
    /\ CodecIdle
    /\ CatIdle
    /\ CrcIdle

\* the transport delivers the next bytes of the stream, at most ChunkMax
IncomingChunk ==
    \E size \in ChunkSizes :
        LET n     == Min(size, Len(StreamBytes(stream)) - pos)
            chunk == SubSeq(StreamBytes(stream), pos + 1, pos + n)
            r     == handleIncoming(rxBuf, chunk)
        IN  /\ n > 0
            /\ pos' = pos + n
            /\ rxBuf' = r.rxBuf
            /\ ioSent' = ioSent \o r.sends
            /\ ioCalls' = IF ioCalls = "none" THEN "one" ELSE "many"
            /\ UNCHANGED <<stream, shortFirst, codecVars, flowVars, catVars, crcVars>>

BigNext == IncomingChunk

SpecBig == BigInit /\ [][BigNext]_vars

\* C20: after every handleIncoming call the receive buffer holds at most
\* 2048 + C bytes, C being the largest chunk size.
C20_BoundedReceiveBuffer ==
    Len(rxBuf) <= ResyncBound + ChunkMax

\* bytes beyond the bound arrived without a frame, and the buffer was cut
\* back to its last marker
C20_Witness ==
    /\ pos > ResyncBound
    /\ ioSent = << >>
    /\ rxBuf # << >>
    /\ rxBuf[1] = MAGIC_V2
    /\ Len(rxBuf) < ChunkMax


\* the candidates of buf are well formed, and the frame announced at the
\* first marker is a candidate when its bytes are all there
WellFormedCands(buf, cands, first) ==
    /\ \A k \in 1..Len(cands) :
          /\ cands[k].start >= 0
          /\ buf[cands[k].start + 1] = MAGIC_V2
          /\ cands[k].end - cands[k].start = 12 + buf[cands[k].start + 2]
          /\ cands[k].end <= Len(buf)
          /\ cands[k].frameBuf = SubSeq(buf, cands[k].start + 1, cands[k].end)
          /\ Len(cands[k].frameBuf) = 12 + cands[k].frameBuf[2]
          /\ k > 1 => cands[k].start >= cands[k - 1].end
    /\ (first + 12 <= Len(buf) /\ first + 12 + buf[first + 2] <= Len(buf)) =>
          (cands # << >> /\ cands[1].start = first)

WellFormed(buf) ==
    \A cands \in {scanFramesV2(buf)} :
        \A first \in {NextMarker(buf, 0)} : WellFormedCands(buf, cands, first)

\* C25: every candidate scanFramesV2 yields for the buffer given to the parse
\* node starts at a 0xFD byte, is 12 plus its length byte long, lies inside
\* the buffer and starts at or after the end of the candidate before it; the
\* frame at the first marker is yielded when complete, whatever its checksum.
C25_CandidateWellFormed ==
    parsed.done => WellFormed(parsed.buf)

C25_Witness ==
    /\ parsed.done
    /\ Len(Cands) = MaxBurst
    /\ Cands[1].start > 0
    /\ Cands[MaxBurst].end < Len(parsed.buf)
    /\ FrameMsgId(CandFrame(1)) = 0
    /\ ~ChecksumOk(Dialect[1], CandFrame(1))
    /\ ChecksumOk(Dialect[1], CandFrame(2))

\* the message the parse node sends for the k-th candidate given on its own
Alone(k) == ParseSends(parseNode.messages, CandFrame(k))

Fails(k) == "name" \notin DOMAIN parsed.sent[k].mavlink

\* C22: for every buffer given to the parse node, the handler sends one
\* message per candidate frame of the buffer, in scan order, and the message
\* sent for a candidate is the one sent when that frame is given on its own,
\* whatever became of the frames before it.
C22_PerFrameIsolation ==
    parsed.done =>
        /\ Len(parsed.sent) = Len(Cands)
        /\ \A k \in 1..Len(Cands) :
              /\ parsed.sent[k]._raw = CandFrame(k)
              /\ Alone(k) = <<parsed.sent[k]>>

C22_Witness ==
    /\ parsed.done
    /\ Len(Cands) = MaxBurst
    /\ Len(parsed.sent) = MaxBurst
    /\ Fails(1)
    /\ Fails(2)
    /\ ~parsed.sent[1].mavlink.checksumOk
    /\ parsed.sent[2].mavlink.checksumOk
    /\ ~Fails(MaxBurst)
    /\ parsed.sent[MaxBurst].mavlink.name = "HEARTBEAT"

\* C21: when a handleIncoming call completes no frame and its buffer is
\* longer than 2048 bytes, the buffer kept is the suffix that starts at the
\* first marker of the buffer, or is empty when the buffer holds no marker.
C21_ForcedResyncTarget ==
    [][LET buf   == rxBuf \o SubSeq(AllBytes, pos + 1, pos')
           first == NextMarker(buf, 0)
       IN  (pos' > pos /\ scanFramesV2(buf) = << >> /\ Len(buf) > ResyncBound) =>
               rxBuf' = subarray(buf, first, Len(buf))]_vars

\* C24: when the whole stream has been delivered, the frames sent are those
\* sent when the same stream is delivered as one chunk, however it was cut.
C24_ChunkingIndependence ==
    pos = Len(AllBytes) =>
        ioSent = handleIncoming(<< >>, AllBytes).sends

(***************************************************************************)
(* The codec under test: message definitions of up to MaxFields fields,    *)
(* every field a scalar or an array of MaxArrayLen elements of any type    *)
(* of the type table, and for each the value mappings built from sample    *)
(* values of the field's type, every field possibly absent.                *)
(***************************************************************************)
MaxFields == 2

MaxArrayLen == 2

FieldNames == <<"f1", "f2", "f3", "f4">>

FieldShapes ==
    {[type |-> t, arrayLen |-> n] : t \in DOMAIN typeSize, n \in {0, MaxArrayLen}}

FieldLists ==
    UNION {[1..k -> FieldShapes] : k \in 0..MaxFields}

CodecDefs ==
    {[name |-> "TEST", id |-> 1, crc |-> 0,
      fields |-> [i \in 1..Len(shapes) |->
                    [name |-> FieldNames[i], type |-> shapes[i].type,
                     arrayLen |-> shapes[i].arrayLen]]] : shapes \in FieldLists}

\* two sample values of each type: its least and its greatest modelled value
Samples(t) ==
    CASE t \in {"char", "int8_t"} -> <<-128, 127>>
      [] t = "uint8_t"  -> <<255, 253>>
      [] t = "int16_t"  -> <<-32768, 32767>>
      [] t = "uint16_t" -> <<65535, 258>>
      [] t = "int32_t"  -> <<-2147483647, 2147483647>>
      [] t = "uint32_t" -> <<2147483647, 65536>>
      [] t = "int64_t"  -> <<-1, 2147483647>>
      [] t = "uint64_t" -> <<2147483647, 1>>

\* the values a caller may supply for field f
FieldValues(f) ==
    IF f.arrayLen # 0 /\ f.type = "char"
    THEN {<<65>>, [i \in 1..(f.arrayLen + 1) |-> 65 + i]}
    ELSE IF f.arrayLen # 0
    THEN {<<Samples(f.type)[1]>>,
          [i \in 1..f.arrayLen |-> Samples(f.type)[1 + (i % 2)]]}
    ELSE {Samples(f.type)[1], Samples(f.type)[2]}

RECURSIVE ValueMapsFrom(_, _)
ValueMapsFrom(fields, k) ==
    IF k > Len(fields) THEN {EmptyObj}
    ELSE LET rest == ValueMapsFrom(fields, k + 1)
         IN  rest \cup {(fields[k].name :> v) @@ m : v \in FieldValues(fields[k]), m \in rest}

ValueMaps(def) == ValueMapsFrom(def.fields, 1)

CodecInit ==
    /\ cdef \in CodecDefs
    /\ cvals \in ValueMaps(cdef)
    /\ cpacked = Idle
    /\ cbytes = << >>
    /\ cunpacked = Idle
    /\ FlowIdle
    /\ IOIdle
    /\ CatIdle
    /\ CrcIdle

\* the caller packs the mapping
Pack ==
    /\ cpacked = Idle
    /\ cpacked' = packPayload(cdef, cvals)
    /\ UNCHANGED <<cdef, cvals, cbytes, cunpacked, flowVars, ioVars, catVars, crcVars>>

\* the caller unpacks the first n bytes of the packed payload
Unpack(n) ==
    /\ cpacked.ok
    /\ cunpacked = Idle
    /\ cbytes' = SubSeq(cpacked.val, 1, n)
    /\ cunpacked' = unpackPayload(cdef, cbytes')
    /\ UNCHANGED <<cdef, cvals, cpacked, flowVars, ioVars, catVars, crcVars>>

UnpackFull == cpacked.ok /\ Unpack(Len(cpacked.val))

UnpackShort == cpacked.ok /\ \E n \in 0..(Len(cpacked.val) - 1) : Unpack(n)

CodecNext == Pack \/ UnpackFull \/ UnpackShort

SpecCodec == CodecInit /\ [][CodecNext]_vars

(***************************************************************************)
(* Claims about the field codec (SpecCodec).                               *)
(***************************************************************************)
DefTotalSize(def) == TotalLen(sortFieldsForPacking(def.fields))

DefFieldNames(def) == {def.fields[i].name : i \in 1..Len(def.fields)}

Unpacked == cunpacked # Idle

\* C9: unpackPayload fails on every byte sequence shorter than the
\* definition's total payload size, whatever the definition's fields.
C9_TruncatedPayloadFails ==
    (Unpacked /\ Len(cbytes) < DefTotalSize(cdef)) => ~cunpacked.ok

\* the value unpackPayload is expected to return for field f of a mapping
ExpectedValue(f, vals) ==
    LET has == f.name \in DOMAIN vals
    IN  IF f.arrayLen # 0
        THEN [i \in 1..f.arrayLen |->
                IF has /\ i <= Len(vals[f.name]) THEN vals[f.name][i] ELSE 0]
        ELSE IF has THEN vals[f.name] ELSE 0

IntegerFieldsOnly(def) ==
    \A i \in 1..Len(def.fields) :
        ~(def.fields[i].arrayLen # 0 /\ def.fields[i].type = "char")

\* C10: for a definition of integer fields and values within the declared
\* widths, packPayload succeeds and unpacking the packed payload returns
\* exactly the definition's field names, each supplied value unchanged and
\* each absent field or missing trailing array element zero.
C10_PayloadRoundTrip ==
    (cpacked # Idle /\ IntegerFieldsOnly(cdef)) =>
        /\ cpacked.ok
        /\ (Unpacked /\ cbytes = cpacked.val) =>
              /\ cunpacked.ok
              /\ DOMAIN cunpacked.val = DefFieldNames(cdef)
              /\ \A i \in 1..Len(cdef.fields) :
                    cunpacked.val[cdef.fields[i].name] = ExpectedValue(cdef.fields[i], cvals)

\* a definition of one scalar 64-bit field whose value the caller supplies
One64 ==
    /\ Len(cdef.fields) = 1
    /\ cdef.fields[1].arrayLen = 0
    /\ cdef.fields[1].type \in {"int64_t", "uint64_t"}
    /\ cdef.fields[1].name \in DOMAIN cvals

\* C11: writing an int64_t or uint64_t value of the safe integer range
\* (negative int64_t values included) succeeds, stores the low 32-bit half
\* then the high 32-bit half, each little-endian, and reading it back
\* returns the value.
C11_Int64RoundTrip ==
    (cpacked # Idle /\ One64) =>
        LET v == cvals[cdef.fields[1].name]
        IN  /\ cpacked.ok
            /\ cpacked.val = Bytes32(Lo32(v)) \o Bytes32(Hi32(v))
            /\ (Unpacked /\ cbytes = cpacked.val) =>
                  (cunpacked.ok /\ cunpacked.val[cdef.fields[1].name] = v)

(***************************************************************************)
(* Definitions of up to MaxOrderFields fields of mixed widths and array    *)
(* lengths, every field supplied with a value that tells it from the       *)
(* others, packed and unpacked in full.                                    *)
(***************************************************************************)
MaxOrderFields == 3

OrderShapes ==
    {[type |-> t, arrayLen |-> n] :
        t \in {"uint8_t", "int16_t", "uint32_t", "uint64_t", "char"},
        n \in {0, MaxArrayLen}}

OrderDefs ==
    {[name |-> "TEST", id |-> 1, crc |-> 0,
      fields |-> [i \in 1..Len(shapes) |->
                    [name |-> FieldNames[i], type |-> shapes[i].type,
                     arrayLen |-> shapes[i].arrayLen]]] :
        shapes \in UNION {[1..k -> OrderShapes] : k \in 0..MaxOrderFields}}

\* field i gets the value 10 i, an array the values 10 i + 1, 10 i + 2, ...
OrderValues(def) ==
    [n \in DefFieldNames(def) |->
        LET i == CHOOSE k \in 1..Len(def.fields) : def.fields[k].name = n
        IN  IF def.fields[i].arrayLen = 0 THEN 10 * i
            ELSE [j \in 1..def.fields[i].arrayLen |-> 10 * i + j]]

OrderInit ==
    /\ cdef \in OrderDefs
    /\ cvals = OrderValues(cdef)
    /\ cpacked = Idle
    /\ cbytes = << >>
    /\ cunpacked = Idle
    /\ FlowIdle
    /\ IOIdle
    /\ CatIdle
    /\ CrcIdle

OrderNext == Pack \/ UnpackFull

SpecOrder == OrderInit /\ [][OrderNext]_vars


\* the bytes that precede field i on the wire when fields are laid out by
\* descending total size, equal sizes in declared order
RECURSIVE BytesBefore(_, _, _)
BytesBefore(fields, i, j) ==
    IF j > Len(fields) THEN 0
    ELSE (IF \/ FieldSize(fields[j]) > FieldSize(fields[i])
             \/ (FieldSize(fields[j]) = FieldSize(fields[i]) /\ j < i)
          THEN FieldSize(fields[j]) ELSE 0)
         + BytesBefore(fields, i, j + 1)

FieldOffset(def, i) == BytesBefore(def.fields, i, 1)

\* the definition that has field i of def alone
OnlyField(def, i) == [def EXCEPT !.fields = <<def.fields[i]>>]

FieldSlice(def, i, buf) ==
    subarray(buf, FieldOffset(def, i), FieldOffset(def, i) + FieldSize(def.fields[i]))

RECURSIVE BytesBeforeByWidth(_, _, _)
BytesBeforeByWidth(fields, i, j) ==
    IF j > Len(fields) THEN 0
    ELSE (IF \/ typeSize[fields[j].type] > typeSize[fields[i].type]
             \/ (typeSize[fields[j].type] = typeSize[fields[i].type] /\ j < i)
          THEN FieldSize(fields[j]) ELSE 0)
         + BytesBeforeByWidth(fields, i, j + 1)

\* C13: in the packed payload every field lies behind all fields of a
\* wider scalar type and behind the earlier declared fields of its own
\* type width, whatever the array lengths.
C13_WireOrderByTypeWidth ==
    cpacked.ok =>
        \A i \in 1..Len(cdef.fields) :
            LET off == BytesBeforeByWidth(cdef.fields, i, 1)
            IN  subarray(cpacked.val, off, off + FieldSize(cdef.fields[i]))
                   = packPayload(OnlyField(cdef, i), cvals).val

(***************************************************************************)
(* mavlink-schema: ensureSchema, run at construction and by node.rebuild.  *)
(* A catalog object has an identity (its index in heap); node.schema and   *)
(* the readers hold identities.  ensureSchema runs without interruption    *)
(* except at its one await, the download.  Whether an existing schema file *)
(* is reused depends on file times and is left open.                       *)
(***************************************************************************)
MaxRuns == 2

\* what parseDialects makes of the XML files of dialect version v
Catalog(v) ==
    [messages |-> IF v = 1 THEN Dialect
                  ELSE Append(Dialect, [name |-> "EXTRA", id |-> 77, crc |-> 1,
                                        fields |-> <<Field("x", "uint8_t", 0)>>])]

Catalogs == {Catalog(1), Catalog(2)}

\* an assignment that overwrites the catalog object in use
Install_InPlace(h, ns, content) ==
    IF ns = 0 THEN [heap |-> Append(h, content), nodeSchema |-> Len(h) + 1]
    ELSE [heap |-> [h EXCEPT ![ns] = content], nodeSchema |-> ns]

\* node.schema = schema, schema being a new object
Install(h, ns, content) ==
    [heap |-> Append(h, content), nodeSchema |-> Len(h) + 1]

\* ensureSchema from the XML candidates on: xv is the XML version on disk
Finish(kind, downloaded, xv) ==
    IF xv = 0
    THEN /\ lastRun' = [kind |-> kind, downloaded |-> downloaded, produced |-> FALSE]
         /\ UNCHANGED <<schemaFile, heap, nodeSchema>>
    ELSE \E needBuild \in (IF schemaFile = 0 THEN {TRUE} ELSE BOOLEAN) :
            LET content == Catalog(IF needBuild THEN xv ELSE schemaFile)
                r       == Install(heap, nodeSchema, content)
            IN  /\ heap' = r.heap
                /\ nodeSchema' = r.nodeSchema
                /\ schemaFile' = IF needBuild THEN xv ELSE schemaFile
                /\ lastRun' = [kind |-> kind, downloaded |-> downloaded, produced |-> TRUE]

\* needFetch || !fs.existsSync(extractRoot)
NeedFetch == zipState # "fresh"

\* ensureSchema up to its await, or to its end when nothing is downloaded
StartRun(kind) ==
    /\ started < MaxRuns
    /\ started' = started + 1
    /\ IF autoDownload /\ NeedFetch
       THEN /\ inflight' = Append(inflight, kind)
            /\ UNCHANGED <<schemaFile, heap, nodeSchema, lastRun>>
       ELSE /\ inflight' = inflight
            /\ Finish(kind, FALSE, xmlVer)
    /\ UNCHANGED <<autoDownload, zipState, upstream, xmlVer, held,
                   codecVars, flowVars, ioVars, crcVars>>

\* MavlinkSchemaNode(config): ensureSchema() on deploy
FirstRun == started = 0 /\ StartRun("first")

\* node.rebuild(), POST /mavlink-schema/rebuild
Rebuild == started > 0 /\ StartRun("rebuild")

Without(q, i) == SubSeq(q, 1, i - 1) \o SubSeq(q, i + 1, Len(q))

\* downloadRepoZip resolves: the zip is written and extracted, the run goes on
DownloadDone ==
    \E i \in 1..Len(inflight) :
        /\ zipState' = "fresh"
        /\ xmlVer' = upstream
        /\ inflight' = Without(inflight, i)
        /\ Finish(inflight[i], TRUE, upstream)
        /\ UNCHANGED <<autoDownload, upstream, held, started, codecVars, flowVars, ioVars, crcVars>>

\* downloadRepoZip rejects: the catch block reports the error
DownloadFails ==
    \E i \in 1..Len(inflight) :
        /\ inflight' = Without(inflight, i)
        /\ lastRun' = [kind |-> inflight[i], downloaded |-> FALSE, produced |-> FALSE]
        /\ UNCHANGED <<autoDownload, zipState, upstream, xmlVer, schemaFile, heap,
                       nodeSchema, held, started, codecVars, flowVars, ioVars, crcVars>>

\* more than seven days pass since the zip was written
CacheAges ==
    /\ zipState = "fresh"
    /\ zipState' = "old"
    /\ UNCHANGED <<autoDownload, upstream, xmlVer, schemaFile, heap, nodeSchema,
                   held, inflight, started, lastRun, codecVars, flowVars, ioVars, crcVars>>

\* the repository publishes another dialect version
UpstreamChanges ==
    /\ upstream = 1
    /\ upstream' = 2
    /\ UNCHANGED <<autoDownload, zipState, xmlVer, schemaFile, heap, nodeSchema,
                   held, inflight, started, lastRun, codecVars, flowVars, ioVars, crcVars>>

\* a reader calls getSchema() and keeps what it got
GetSchema ==
    /\ nodeSchema # 0
    /\ held' = held \cup {[id |-> nodeSchema, seen |-> heap[nodeSchema]]}
    /\ UNCHANGED <<autoDownload, zipState, upstream, xmlVer, schemaFile, heap,
                   nodeSchema, inflight, started, lastRun, codecVars, flowVars, ioVars, crcVars>>

\* the node as constructed, over a cache directory that may hold earlier files
CatInit ==
    /\ autoDownload \in BOOLEAN
    /\ zipState \in (IF autoDownload THEN {"none", "fresh", "old"} ELSE {"none"})
    /\ xmlVer \in (IF autoDownload THEN (IF zipState = "none" THEN {0} ELSE {1}) ELSE {0, 1})
    /\ schemaFile \in (IF xmlVer = 0 THEN {0} ELSE {0, 1})
    /\ upstream = 1
    /\ heap = << >>
    /\ nodeSchema = 0
    /\ held = {}
    /\ inflight = << >>
    /\ started = 0
    /\ lastRun = NoRun
    /\ FlowIdle
    /\ CodecIdle
    /\ IOIdle
    /\ CrcIdle

CatNext ==
    FirstRun \/ Rebuild \/ DownloadDone \/ DownloadFails \/ CacheAges
        \/ UpstreamChanges \/ GetSchema

SpecCat == CatInit /\ [][CatNext]_vars

\* C17: node.schema is null or a complete catalog, and every catalog a
\* reader got from getSchema is still what it was when handed out, while
\* rebuilds run and after they have installed their catalogs.
C17_CatalogSnapshots ==
    /\ nodeSchema = 0 \/ heap[nodeSchema] \in Catalogs
    /\ \A h \in held : heap[h.id] = h.seen

C17_Witness ==
    /\ lastRun.kind = "rebuild"
    /\ lastRun.produced
    /\ \E h \in held :
          /\ h.id # nodeSchema
          /\ heap[h.id] = h.seen
          /\ heap[nodeSchema] # h.seen

\* C18: with auto-download enabled, a rebuild that produces the schema has
\* downloaded and extracted the dialect zip first.
C18_RebuildDownloads ==
    (autoDownload /\ lastRun.kind = "rebuild" /\ lastRun.produced) => lastRun.downloaded


(***************************************************************************)
(* The CRC engine under test: a checksum started from a seed and fed one   *)
(* byte at a time, as the loop of crcX25 does.                             *)
(***************************************************************************)
MaxCrcLen == 3

\* the seeds: MAVLink's, zero, and values with one or a few bits set
CrcSeeds == {crcSeed, 0, 1, 128, 256, 32768, 4660}

\* the first byte is any byte; the bytes after it are from this set
CrcBytes == {0, 1, 128, 255}

CrcInit ==
    /\ crcStart \in CrcSeeds
    /\ crcBuf = << >>
    /\ crcPrev = crcStart
    /\ crcReg = crcStart
    /\ FlowIdle
    /\ CodecIdle
    /\ IOIdle
    /\ CatIdle

\* one turn of the loop of crcX25: crc = crcAccumulate(buf[i], crc)
Accumulate ==
    /\ Len(crcBuf) < MaxCrcLen
    /\ \E b \in (IF crcBuf = << >> THEN 0..255 ELSE CrcBytes) :
          /\ crcBuf' = Append(crcBuf, b)
          /\ crcPrev' = crcReg
          /\ crcReg' = crcAccumulate(b, crcReg)
    /\ UNCHANGED <<crcStart, codecVars, flowVars, ioVars, catVars>>

CrcNext == Accumulate

SpecCrc == CrcInit /\ [][CrcNext]_vars

\* the step as the claim writes it, on bits
X25Step(b, crc) ==
    LET t0  == XorBits(b, crc % 256)
        tmp == XorBits(t0, t0 * 16) % 256
    IN  XorBits(XorBits(XorBits(crc \div 256, tmp * 256), tmp * 8), tmp \div 16) % 65536

\* CRC-16/MCRF4XX bit by bit: reflected polynomial 0x8408, no final xor
RECURSIVE ShiftOut(_, _)
ShiftOut(crc, n) ==
    IF n = 0 THEN crc
    ELSE ShiftOut(IF crc % 2 = 1 THEN XorBits(crc \div 2, 33800) ELSE crc \div 2, n - 1)

BitwiseStep(b, crc) == ShiftOut(XorBits(crc, b), 8)

RECURSIVE LeftFold(_, _)
LeftFold(bytes, crc) ==
    IF bytes = << >> THEN crc
    ELSE LeftFold(Tail(bytes), X25Step(Head(bytes), crc))

\* the ASCII digits "123456789", whose CRC-16/MCRF4XX is 0x6F91
CheckDigits == <<49, 50, 51, 52, 53, 54, 55, 56, 57>>

\* C23: each step crcAccumulate takes equals the X.25/MCRF4XX step on the
\* byte and the checksum before it and lies in 0..65535, and the checksum of
\* a byte sequence is the left-to-right fold of that step from the seed,
\* crcX25 being that fold from 0xFFFF.
C23_CrcEngine ==
    /\ crcReg \in 0..65535
    /\ crcBuf # << >> =>
          /\ crcReg = X25Step(crcBuf[Len(crcBuf)], crcPrev)
          /\ crcReg = BitwiseStep(crcBuf[Len(crcBuf)], crcPrev)
    /\ crcReg = LeftFold(crcBuf, crcStart)
    /\ crcFold(crcBuf, 1, Len(crcBuf), crcStart) % 65536 = crcReg
    /\ crcStart = crcSeed => crcX25(crcBuf) = crcReg
    /\ crcX25(CheckDigits) = 28561

C23_Witness ==
    /\ Len(crcBuf) = MaxCrcLen
    /\ crcStart = crcSeed
    /\ crcBuf[1] = 253
    /\ crcReg # crcPrev
    /\ crcReg > 255

====
